---- MODULE Spec2Model ----
(***************************************************************************)
(* CSV -> Excel dashboard pipeline of auto_dashboard.py: fuzzy column      *)
(* resolution (find_col over SYN), type coercion, derived year, KPI        *)
(* derivation, category collapse and the Data/Dashboard workbook rebuild.  *)
(*                                                                         *)
(* Strings are sequences of one-character strings so that lower(),         *)
(* substring and prefix tests are computed, not assumed.                   *)
(***************************************************************************)
EXTENDS Integers, Sequences, FiniteSets, TLC

VARIABLES
  pc,        \* position of the process in main(), or the phase of a function check
  run,       \* number of the current invocation of the script (1-based)
  path,      \* csv_path returned by pick_csv()
  csv,       \* content of the CSV file on disk: [columns, data], raw
  book,      \* content of <csv>_Dashboard.xlsx on disk: NoFile or a sequence of sheets
  prevBook,  \* what the previous completed run saved (history)
  df,        \* the DataFrame: [columns, dtype, data]
  col,       \* detected columns: canonical field -> header or None
  kpi,       \* derived metrics
  series,    \* category series written on the Dashboard (treaty type)
  steps,     \* what this run has done so far, in order (history)
  raisedAt,  \* where an uncaught exception left main(), "" if none
  exitCode   \* process exit status, -1 while running

vars == <<pc, run, path, csv, book, prevBook, df, col, kpi, series, steps, raisedAt, exitCode>>

----------------------------------------------------------------------------
(* Characters and Python string operations *)

UpperChars == <<"A","B","C","D","E","F","G","H","I","J","K","L","M","N","O","P","Q","R","S","T","U","V","W","X","Y","Z">>
LowerChars == <<"a","b","c","d","e","f","g","h","i","j","k","l","m","n","o","p","q","r","s","t","u","v","w","x","y","z">>

\* str.lower() on one character
LowerChar(ch) ==
  IF \E i \in 1..Len(UpperChars) : UpperChars[i] = ch
  THEN LowerChars[CHOOSE i \in 1..Len(UpperChars) : UpperChars[i] = ch]
  ELSE ch

\* str.lower()
Lower(s) == [i \in 1..Len(s) |-> LowerChar(s[i])]

\* c.startswith(k)
StartsWith(c, k) == Len(k) <= Len(c) /\ SubSeq(c, 1, Len(k)) = k

\* k in c
Contains(c, k) ==
  \E i \in 0..(Len(c) - Len(k)) : SubSeq(c, i + 1, i + Len(k)) = k

IsSpace(ch) == ch \in {" ", "\t"}

\* str.strip()
RECURSIVE LStrip(_)
LStrip(s) == IF s # <<>> /\ IsSpace(Head(s)) THEN LStrip(Tail(s)) ELSE s
RECURSIVE RStrip(_)
RStrip(s) ==
  IF s # <<>> /\ IsSpace(s[Len(s)]) THEN RStrip(SubSeq(s, 1, Len(s) - 1)) ELSE s
Strip(s) == RStrip(LStrip(s))

\* re.sub(r"\s+", " ", c): every run of whitespace becomes one space
RECURSIVE CollapseSpaces(_)
CollapseSpaces(s) ==
  IF s = <<>> THEN <<>>
  ELSE IF IsSpace(Head(s))
       THEN <<" ">> \o CollapseSpaces(LStrip(s))
       ELSE <<Head(s)>> \o CollapseSpaces(Tail(s))

norm(c) == CollapseSpaces(Strip(c))

normalize_columns(cols) == [i \in 1..Len(cols) |-> norm(cols[i])]

----------------------------------------------------------------------------
(* The synonym table *)

SYN ==
  [ date |-> <<
        <<"r","e","p","o","r","t","i","n","g"," ","d","a","t","e">>,
        <<"r","e","p","o","r","t"," ","d","a","t","e">>,
        <<"d","a","t","e">>,
        <<"p","e","r","i","o","d">>,
        <<"m","o","n","t","h">>,
        <<"p","o","s","t","i","n","g"," ","d","a","t","e">>,
        <<"a","c","c","o","u","n","t","i","n","g"," ","d","a","t","e">>,
        <<"v","a","l","u","a","t","i","o","n"," ","d","a","t","e">>
     >>,
    acct_year |-> <<
        <<"a","c","c","o","u","n","t","i","n","g"," ","y","e","a","r">>,
        <<"a","c","c"," ","y","e","a","r">>,
        <<"f","i","s","c","a","l"," ","y","e","a","r">>,
        <<"y","e","a","r">>,
        <<"a","y">>
     >>,
    company |-> <<
        <<"c","o","m","p","a","n","y"," ","c","o","d","e">>,
        <<"c","o","m","p","a","n","y">>,
        <<"e","n","t","i","t","y">>,
        <<"l","e","g","a","l"," ","e","n","t","i","t","y">>
     >>,
    treaty |-> <<
        <<"t","r","e","a","t","y"," ","n","u","m","b","e","r">>,
        <<"t","r","e","a","t","y"," ","i","d">>,
        <<"c","o","n","t","r","a","c","t">>,
        <<"p","o","l","i","c","y">>,
        <<"t","r","e","a","t","y"," ","n","o">>
     >>,
    treaty_type |-> <<
        <<"t","r","e","a","t","y"," ","t","y","p","e">>,
        <<"c","o","n","t","r","a","c","t"," ","t","y","p","e">>,
        <<"p","r","o","g","r","a","m"," ","t","y","p","e">>
     >>,
    lob |-> <<
        <<"l","i","n","e"," ","o","f"," ","b","u","s","i","n","e","s","s"," ","i","n","s">>,
        <<"l","i","n","e"," ","o","f"," ","b","u","s","i","n","e","s","s">>,
        <<"l","o","b">>,
        <<"s","e","g","m","e","n","t">>
     >>,
    partner |-> <<
        <<"r","i"," ","p","a","r","t","n","e","r">>,
        <<"r","e","i","n","s","u","r","e","r">>,
        <<"c","e","d","e","n","t"," ","p","a","r","t","n","e","r">>,
        <<"t","r","a","d","i","n","g"," ","p","a","r","t","n","e","r">>,
        <<"v","b","u","n","d">>,
        <<"c","o","m","p","a","n","y"," ","i","d"," ","o","f"," ","t","r","a","d","i","n","g"," ","p","a","r","t","n","e","r"," ","(","v","b","u","n","d",")">>
     >>,
    gl |-> <<
        <<"g","l"," ","a","c","c","o","u","n","t">>,
        <<"a","c","c","o","u","n","t">>,
        <<"g","l">>
     >>,
    currency |-> <<
        <<"c","u","r","r","e","n","c","y"," ","k","e","y">>,
        <<"c","u","r","r","e","n","c","y">>,
        <<"c","c","y">>,
        <<"i","s","o"," ","c","u","r","r","e","n","c","y"," ","c","o","d","e">>
     >>,
    amount |-> <<
        <<"a","m","o","u","n","t"," ","i","n"," ","b","a","l","a","n","c","e"," ","t","r">>,
        <<"a","m","o","u","n","t">>,
        <<"g","r","o","s","s"," ","a","m","o","u","n","t">>,
        <<"n","e","t"," ","a","m","o","u","n","t">>,
        <<"v","a","l","u","e">>
     >>,
    value_local |-> <<
        <<"v","a","l","u","e"," ","l","o","c","a","l"," ","c","u","r","r","e","n","c","y">>,
        <<"l","o","c","a","l"," ","v","a","l","u","e">>,
        <<"a","m","o","u","n","t"," ","l","o","c","a","l">>,
        <<"v","a","l","u","e"," ","l","c">>
     >> ]

Fields == DOMAIN SYN

\* Python's None; no header is this one-element sequence
None == <<"<None>">>

\* truth value of a find_col result: None and "" are false
Truthy(c) == c # None /\ c # <<>>

----------------------------------------------------------------------------
(* Headers used as inputs *)

H_Policy == <<"P","o","l","i","c","y">>
H_TreatyNumber == <<"T","r","e","a","t","y"," ","N","u","m","b","e","r">>
H_Amount == <<"A","m","o","u","n","t">>
H_AmountLocal == <<"A","m","o","u","n","t"," ","L","o","c","a","l">>
H_ValueDate == <<"V","a","l","u","e"," ","D","a","t","e">>
H_Date == <<"D","a","t","e">>
H_PaymentDate == <<"P","a","y","m","e","n","t"," ","D","a","t","e">>
H_Year == <<"Y","e","a","r">>
H_AutoYear == <<"A","c","c","o","u","n","t","i","n","g"," ","Y","e","a","r"," ","(","a","u","t","o",")">>
H_LOB == <<"L","O","B">>
H_TreatyType == <<"T","r","e","a","t","y"," ","T","y","p","e">>
H_RIPartner == <<"R","I"," ","P","a","r","t","n","e","r">>
H_Notes == <<"N","o","t","e","s">>
H_Company == <<"C","o","m","p","a","n","y">>
H_GLAccount == <<"G","L"," ","A","c","c","o","u","n","t">>
H_RawPostingDate == <<" ","P","o","s","t","i","n","g"," ","\t"," ","D","a","t","e"," ">>
H_PostingDate == <<"P","o","s","t","i","n","g"," ","D","a","t","e">>
H_AutoAmount == <<"_","_","a","m","o","u","n","t","_","_">>
H_MonthNameFR == <<"_","M","o","n","t","h","N","a","m","e","F","R">>
H_MonthPeriod == <<"_","M","o","n","t","h","P","e","r","i","o","d">>

----------------------------------------------------------------------------
(* find_col *)

\* the test of line 65
Match(c, k) == c = k \/ Contains(c, k) \/ StartsWith(c, k)

\* inner loop: index of the first column that matches k, 0 if none
RECURSIVE ScanCols(_, _, _)
ScanCols(cols, k, i) ==
  IF i > Len(cols) THEN 0
  ELSE IF Match(cols[i], k) THEN i
  ELSE ScanCols(cols, k, i + 1)

\* outer loop over the keys, in order
RECURSIVE ScanKeys(_, _, _, _)
ScanKeys(columns, cols, keys, j) ==
  IF j > Len(keys) THEN None
  ELSE LET i == ScanCols(cols, Lower(keys[j]), 1)
       IN IF i # 0 THEN columns[i] ELSE ScanKeys(columns, cols, keys, j + 1)

\* a find_col whose loops are exchanged: the first header that matches any key
RECURSIVE ScanHeadersFirst(_, _, _, _)
ScanHeadersFirst(columns, cols, keys, i) ==
  IF i > Len(columns) THEN None
  ELSE IF \E j \in 1..Len(keys) : Match(cols[i], Lower(keys[j])) THEN columns[i]
  ELSE ScanHeadersFirst(columns, cols, keys, i + 1)

find_col_headers_first(d, keys) ==
  ScanHeadersFirst(d.columns, [i \in 1..Len(d.columns) |-> Lower(d.columns[i])], keys, 1)

find_col(d, keys) ==
  ScanKeys(d.columns, [i \in 1..Len(d.columns) |-> Lower(d.columns[i])], keys, 1)

----------------------------------------------------------------------------
(* Cells and columns of a DataFrame *)

\* numbers are fixed-point: a numeric cell of value x holds v = x * FP
FP == 2

\* a missing value (NaN / pd.NA)
NaN == [k |-> "nan", s |-> "", v |-> 0]
\* a missing timestamp
NaT == [k |-> "nat", s |-> "", v |-> 0]
\* a text cell that is neither a number nor a date
Str(t) == [k |-> "str", s |-> t, v |-> 0]
\* a text cell that parses as a date of year y, month m
DateStr(y, m) == [k |-> "datestr", s |-> "", v |-> y * 12 + (m - 1)]
\* the whole number n
Num(n) == [k |-> "num", s |-> "", v |-> n * FP]
\* the non-integer number n + 1/FP
Frac(n) == [k |-> "num", s |-> "", v |-> n * FP + 1]
\* a datetime64 value in year y, month m
Ts(y, m) == [k |-> "ts", s |-> "", v |-> y * 12 + (m - 1)]
\* a monthly period label "YYYY-MM"
Period(ts) == [k |-> "period", s |-> "", v |-> ts.v]

YearOf(c) == c.v \div 12
MonthOf(c) == (c.v % 12) + 1

IsNull(c) == c.k \in {"nan", "nat"}

\* the int64 view of NaT (the smallest int64, scaled to the model's integers)
NaTView == [k |-> "num", s |-> "", v |-> -(2^20) * FP]

\* dtype read_csv infers for a raw column
RawDtype(cells) ==
  IF \A i \in 1..Len(cells) : cells[i].k \in {"num", "nan"} THEN "numeric" ELSE "object"

HasCol(d, name) == \E i \in 1..Len(d.columns) : d.columns[i] = name
ColIdx(d, name) == CHOOSE i \in 1..Len(d.columns) : d.columns[i] = name
\* df[name]
Cells(d, name) == d.data[ColIdx(d, name)]
Dtype(d, name) == d.dtype[ColIdx(d, name)]
NRows(d) == IF Len(d.data) = 0 THEN 0 ELSE Len(d.data[1])

\* df[name] = cells: replaces the column of that label, or appends a new one
SetCol(d, name, cells, dt) ==
  IF HasCol(d, name)
  THEN [d EXCEPT !.data[ColIdx(d, name)] = cells, !.dtype[ColIdx(d, name)] = dt]
  ELSE [columns |-> Append(d.columns, name),
        dtype |-> Append(d.dtype, dt),
        data |-> Append(d.data, cells)]

\* pd.to_datetime(x, errors="coerce") on one cell; a number is nanoseconds
\* since 1970-01-01
ToDatetimeCell(c) ==
  CASE c.k = "datestr" -> Ts(YearOf(c), MonthOf(c))
    [] c.k = "ts" -> c
    [] c.k = "num" -> IF c.v >= 0 THEN Ts(1970, 1) ELSE Ts(1969, 12)
    [] OTHER -> NaT

to_datetime(cells) == [i \in 1..Len(cells) |-> ToDatetimeCell(cells[i])]

\* pd.to_numeric(x, errors="coerce") on one cell; a datetime64 column is
\* viewed as int64 (months since 1970 stand for the nanoseconds)
ToNumericCell(c) ==
  CASE c.k = "num" -> c
    [] c.k = "ts" -> Num(c.v - 1970 * 12)
    [] c.k = "nat" -> NaTView
    [] OTHER -> NaN

to_numeric(cells) == [i \in 1..Len(cells) |-> ToNumericCell(cells[i])]

\* dtype of the result of pd.to_numeric
NumericDtype(dt) == IF dt = "Int64" THEN "Int64" ELSE "numeric"

\* .astype("Int64") raises TypeError on a non-integer float
AstypeInt64Raises(cells) ==
  \E i \in 1..Len(cells) : cells[i].k = "num" /\ cells[i].v % FP # 0

\* series.dt.year
DtYear(cells) ==
  [i \in 1..Len(cells) |-> IF cells[i].k = "ts" THEN Num(YearOf(cells[i])) ELSE NaN]

----------------------------------------------------------------------------
(* coerce_types *)

\* lines 71-74
CoerceDate(d) ==
  LET c == find_col(d, SYN.date)
  IN IF Truthy(c) THEN SetCol(d, c, to_datetime(Cells(d, c)), "datetime64") ELSE d

\* lines 80-83, one key
CoerceNumeric(d, key) ==
  LET c == find_col(d, SYN[key])
  IN IF Truthy(c)
     THEN SetCol(d, c, to_numeric(Cells(d, c)), NumericDtype(Dtype(d, c)))
     ELSE d

\* the whole function: [ok, df]; ok = FALSE when line 78 raises
coerce_types(d) ==
  LET d1 == CoerceDate(d)
      ay == find_col(d1, SYN.acct_year)
      num == IF Truthy(ay) THEN to_numeric(Cells(d1, ay)) ELSE <<>>
  IN IF Truthy(ay) /\ AstypeInt64Raises(num)
     THEN [ok |-> FALSE, df |-> d1]
     ELSE LET d2 == IF Truthy(ay) THEN SetCol(d1, ay, num, "Int64") ELSE d1
          IN [ok |-> TRUE, df |-> CoerceNumeric(CoerceNumeric(d2, "amount"), "value_local")]

----------------------------------------------------------------------------
(* ensure_year *)

AutoYear == H_AutoYear

\* [ok, df, ret]; ok = FALSE when .dt raises AttributeError (line 90) because
\* the date column is not datetime64
ensure_year(d) ==
  LET ay == find_col(d, SYN.acct_year)
      date_col == find_col(d, SYN.date)
  IN IF ~Truthy(ay) /\ Truthy(date_col)
     THEN IF Dtype(d, date_col) # "datetime64"
          THEN [ok |-> FALSE, df |-> d, ret |-> None]
          ELSE [ok |-> TRUE,
                df |-> SetCol(d, AutoYear, DtYear(Cells(d, date_col)), "numeric"),
                ret |-> AutoYear]
     ELSE [ok |-> TRUE, df |-> d, ret |-> ay]

----------------------------------------------------------------------------
(* Column resolution on its own: find_col applied to every header list *)

\* longest header list of the resolution check
MaxHeaders == 2

ResolveHeaders ==
  { H_Policy, H_TreatyNumber, H_Amount, H_AmountLocal, H_ValueDate, H_Date,
    H_PaymentDate, H_Year, H_AutoYear, H_LOB, H_TreatyType, H_RIPartner,
    H_Notes, H_Company, H_GLAccount, H_PostingDate }

\* sequences of pairwise different elements of S, of length 0..n
DistinctSeqs(S, n) ==
  UNION { { q \in [1..m -> S] : \A i, j \in 1..m : i # j => q[i] # q[j] } : m \in 0..n }

\* a DataFrame with the given columns and no rows
EmptyFrame(hs) ==
  [columns |-> hs, dtype |-> [i \in 1..Len(hs) |-> "object"], data |-> [i \in 1..Len(hs) |-> <<>>]]

NoFile == <<>>
NoFrame == EmptyFrame(<<>>)
NoCols == [f \in Fields |-> None]
\* an optional result: Absent, or Some(x)
Absent == <<>>
Some(x) == <<x>>

NoKpi == [total_amount |-> 0, yoy_change_abs |-> Absent, yoy_change_pct |-> Absent,
          n_treaties |-> Absent, n_partners |-> Absent, top_lob |-> Absent]

InitResolve ==
  /\ pc = "resolve"
  /\ df \in { EmptyFrame(hs) : hs \in DistinctSeqs(ResolveHeaders, MaxHeaders) }
  /\ col = NoCols
  /\ run = 0 /\ path = "" /\ csv = NoFrame /\ book = NoFile /\ prevBook = NoFile
  /\ kpi = NoKpi /\ series = <<>> /\ steps = <<>> /\ raisedAt = "" /\ exitCode = -1

\* find_col(df, SYN[f]) for every canonical field f
FindAll ==
  /\ pc = "resolve"
  /\ col' = [f \in Fields |-> find_col(df, SYN[f])]
  /\ pc' = "resolved"
  /\ UNCHANGED <<run, path, csv, book, prevBook, df, kpi, series, steps, raisedAt, exitCode>>

NextResolve == FindAll

SpecResolve == InitResolve /\ [][NextResolve]_vars

----------------------------------------------------------------------------
(* The CSV files the pipeline is run on *)

\* most columns of a CSV
MaxCols == 2
\* most data rows of a CSV
MaxRows == 3

DatesClean == <<DateStr(2023, 1), DateStr(2024, 1), DateStr(2024, 2)>>
DatesDirty == <<Str("n/a"), DateStr(2024, 1), NaN>>
AmountsClean == <<Num(100), Num(150), Num(50)>>
AmountsZeroFirst == <<Num(0), Num(150), Str("abc")>>
AmountsLocal == <<Num(10), NaN, Frac(2)>>
YearsClean == <<Num(2023), Num(2024), Num(2024)>>
YearsText == <<Num(2023), Str("FY24"), Num(2024)>>
YearsFraction == <<Num(2023), Frac(2023), NaN>>
TreatyIds == <<Str("T1"), Str("T1"), Str("T2")>>
LobLabels == <<Str("Marine"), Str("Fire"), Str("Fire")>>
TypeLabels == <<Str("QS"), Str("XL"), Str("QS")>>

\* a column of a CSV: its raw header and the pattern its cells repeat
Templates ==
  { [h |-> H_Date, p |-> DatesClean],
    [h |-> H_RawPostingDate, p |-> DatesDirty],
    [h |-> H_ValueDate, p |-> DatesClean],
    [h |-> H_PaymentDate, p |-> DatesClean],
    [h |-> H_Amount, p |-> AmountsClean],
    [h |-> H_Amount, p |-> AmountsZeroFirst],
    [h |-> H_AmountLocal, p |-> AmountsLocal],
    [h |-> H_Year, p |-> YearsClean],
    [h |-> H_Year, p |-> YearsText],
    [h |-> H_Year, p |-> YearsFraction],
    [h |-> H_AutoYear, p |-> YearsClean],
    [h |-> H_TreatyNumber, p |-> TreatyIds],
    [h |-> H_LOB, p |-> LobLabels],
    [h |-> H_TreatyType, p |-> TypeLabels] }

\* the first n cells of a repeating pattern
Column(p, n) == [i \in 1..n |-> p[((i - 1) % Len(p)) + 1]]

\* the CSV with the columns q (a sequence of templates) and n rows
MkCsv(q, n) ==
  [columns |-> [i \in 1..Len(q) |-> q[i].h],
   data |-> [i \in 1..Len(q) |-> Column(q[i].p, n)]]

\* CSVs of 1..c columns whose headers stay unique after normalization
Csvs(c) ==
  { MkCsv(q, n) :
      q \in { r \in DistinctSeqs(Templates, c) :
                /\ Len(r) >= 1
                /\ \A i, j \in 1..Len(r) : i # j => norm(r[i].h) # norm(r[j].h) },
      n \in 0..MaxRows }

CsvPath == "data.csv"
Paths == {"", "missing.csv", CsvPath}

\* os.path.isfile
isfile(p) == p = CsvPath

----------------------------------------------------------------------------
(* main(), lines 155-176 *)

InitRun(S) ==
  /\ pc = "start"
  /\ run = 1
  /\ path = ""
  /\ csv \in S
  /\ book = NoFile /\ prevBook = NoFile
  /\ df = NoFrame /\ col = NoCols /\ kpi = NoKpi /\ series = <<>>
  /\ steps = <<>> /\ raisedAt = "" /\ exitCode = -1

Init == InitRun(Csvs(MaxCols))

\* an uncaught exception ends the process
Raise(where) ==
  /\ pc' = "raised"
  /\ raisedAt' = where
  /\ exitCode' = 1

\* line 156: pick_csv() returns whatever the operator selects or types
PickCsv ==
  /\ pc = "start"
  /\ \E p \in Paths : path' = p
  /\ pc' = "picked"
  /\ steps' = Append(steps, "pick_csv")
  /\ UNCHANGED <<run, csv, book, prevBook, df, col, kpi, series, raisedAt, exitCode>>

\* the test of line 157 without the isfile call
PathRejected_empty_only(p) == p = ""

\* the test of line 157
PathRejected(p) == p = "" \/ ~isfile(p)

\* lines 157-159
CheckPath ==
  /\ pc = "picked"
  /\ IF PathRejected(path)
     THEN /\ pc' = "exited"
          /\ exitCode' = 1
          /\ steps' = steps \o <<"print_invalid_path", "exit">>
     ELSE /\ pc' = "checked"
          /\ UNCHANGED <<exitCode, steps>>
  /\ UNCHANGED <<run, path, csv, book, prevBook, df, col, kpi, series, raisedAt>>

\* pd.read_csv: FileNotFoundError when the path names no file
read_csv(p) ==
  IF isfile(p)
  THEN [ok |-> TRUE,
        df |-> [columns |-> csv.columns,
                dtype |-> [i \in 1..Len(csv.columns) |-> RawDtype(csv.data[i])],
                data |-> csv.data]]
  ELSE [ok |-> FALSE, df |-> NoFrame]

\* lines 161-163
LoadCsv ==
  /\ pc = "checked"
  /\ steps' = Append(steps, "read_csv")
  /\ LET r == read_csv(path)
     IN IF r.ok
        THEN /\ df' = [r.df EXCEPT !.columns = normalize_columns(r.df.columns)]
             /\ pc' = "loaded"
             /\ UNCHANGED <<raisedAt, exitCode>>
        ELSE /\ Raise("read_csv")
             /\ UNCHANGED df
  /\ UNCHANGED <<run, path, csv, book, prevBook, col, kpi, series>>

\* line 164
CoerceTypes ==
  /\ pc = "loaded"
  /\ steps' = Append(steps, "coerce_types")
  /\ LET r == coerce_types(df)
     IN /\ df' = r.df
        /\ IF r.ok
           THEN pc' = "coerced" /\ UNCHANGED <<raisedAt, exitCode>>
           ELSE Raise("coerce_types")
  /\ UNCHANGED <<run, path, csv, book, prevBook, col, kpi, series>>

\* x or y on find_col results
Or(x, y) == IF Truthy(x) THEN x ELSE y

\* lines 166-176; the fields main() does not look up stay None
DetectColumns ==
  /\ pc = "coerced"
  /\ steps' = Append(steps, "find_col")
  /\ LET col_amount == find_col(df, SYN.amount)
         before == [NoCols EXCEPT !.amount = col_amount,
                                  !.value_local = Or(find_col(df, SYN.value_local), col_amount),
                                  !.date = find_col(df, SYN.date)]
         y == ensure_year(df)
     IN IF ~y.ok
        THEN /\ col' = before
             /\ Raise("ensure_year")
             /\ UNCHANGED df
        ELSE /\ df' = y.df
             /\ col' = [before EXCEPT !.acct_year = y.ret,
                                      !.company = find_col(y.df, SYN.company),
                                      !.treaty = find_col(y.df, SYN.treaty),
                                      !.treaty_type = find_col(y.df, SYN.treaty_type),
                                      !.lob = find_col(y.df, SYN.lob),
                                      !.partner = find_col(y.df, SYN.partner),
                                      !.currency = find_col(y.df, SYN.currency)]
             /\ pc' = "detected"
             /\ UNCHANGED <<raisedAt, exitCode>>
  /\ UNCHANGED <<run, path, csv, book, prevBook, kpi, series>>

----------------------------------------------------------------------------
(* Aggregation helpers: groupby(...).sum() and the sorts *)

RECURSIVE SumSeq(_)
SumSeq(q) == IF q = <<>> THEN 0 ELSE Head(q) + SumSeq(Tail(q))

\* what a cell adds to a sum: missing values are skipped
AmountOf(c) == IF c.k = "num" THEN c.v ELSE 0

\* the distinct non-null cells, in order of first appearance
RECURSIVE Uniq(_, _, _)
Uniq(cells, i, acc) ==
  IF i > Len(cells) THEN acc
  ELSE IF IsNull(cells[i]) \/ (\E j \in 1..Len(acc) : acc[j] = cells[i])
       THEN Uniq(cells, i + 1, acc)
       ELSE Uniq(cells, i + 1, Append(acc, cells[i]))

\* groupby(keys)[vals].sum(): one [key, sum] per distinct non-null key
GroupBySum(keys, vals) ==
  LET ks == Uniq(keys, 1, <<>>)
  IN [g \in 1..Len(ks) |->
        [key |-> ks[g],
         sum |-> SumSeq([r \in 1..Len(keys) |->
                           IF keys[r] = ks[g] THEN AmountOf(vals[r]) ELSE 0])]]

Remove(q, i) == SubSeq(q, 1, i - 1) \o SubSeq(q, i + 1, Len(q))

\* sort_index() / sort_values(key column): ascending by key
RECURSIVE SortByKey(_)
SortByKey(g) ==
  IF g = <<>> THEN <<>>
  ELSE LET m == CHOOSE i \in 1..Len(g) : \A j \in 1..Len(g) : g[i].key.v <= g[j].key.v
       IN <<g[m]>> \o SortByKey(Remove(g, m))

\* how sort_values breaks ties between equal sums (the sort is not stable)
TieBreaks == {"first", "last"}

\* sort_values(ascending=False): descending by sum
RECURSIVE SortBySumDesc(_, _)
SortBySumDesc(g, tb) ==
  IF g = <<>> THEN <<>>
  ELSE LET top == { i \in 1..Len(g) : \A j \in 1..Len(g) : g[i].sum >= g[j].sum }
           m == CHOOSE i \in top :
                  \A j \in top : IF tb = "first" THEN i <= j ELSE i >= j
       IN <<g[m]>> \o SortBySumDesc(Remove(g, m), tb)

\* Series.nunique()
nunique(cells) == Len(Uniq(cells, 1, <<>>))

----------------------------------------------------------------------------
(* main(), lines 178-204: fallback amount, month columns, KPIs *)

FrMonths == <<"janvier", "février", "mars", "avril", "mai", "juin",
              "juillet", "août", "septembre", "octobre", "novembre", "décembre">>

\* french_month_name on a datetime64 column: with a NaT in the column
\* dt.month is float and no value passes the isinstance test
french_month_name(cells) ==
  IF \E i \in 1..Len(cells) : cells[i].k # "ts"
  THEN [i \in 1..Len(cells) |-> NaN]
  ELSE [i \in 1..Len(cells) |-> Str(FrMonths[MonthOf(cells[i])])]

\* pd.to_datetime(x).dt.to_period("M").astype(str)
MonthPeriod(cells) ==
  [i \in 1..Len(cells) |->
     LET t == ToDatetimeCell(cells[i]) IN IF t.k = "ts" THEN Period(t) ELSE Str("NaT")]

\* lines 179-182
WithAmount(d, col_amount) ==
  IF col_amount = None
  THEN SetCol(d, H_AutoAmount, [i \in 1..NRows(d) |-> Num(0)], "numeric")
  ELSE d

\* lines 185-187, when the date column is datetime64
WithMonths(d, col_date) ==
  IF Truthy(col_date)
  THEN SetCol(SetCol(d, H_MonthNameFR, french_month_name(Cells(d, col_date)), "object"),
              H_MonthPeriod, MonthPeriod(Cells(d, col_date)), "object")
  ELSE d

\* exact quotients: a / b, r - k, r * k
Div(a, b) == [n |-> a, d |-> b]
Minus(r, k) == [n |-> r.n - k * r.d, d |-> r.d]
Times(r, k) == [n |-> r.n * k, d |-> r.d]

\* line 190
total_amount(d, col_amount) ==
  SumSeq([i \in 1..NRows(d) |-> AmountOf(ToNumericCell(Cells(d, col_amount)[i]))])

\* line 194
YearGroups(d, col_year, col_amount) ==
  SortByKey(GroupBySum(Cells(d, col_year), Cells(d, col_amount)))

\* line 196
yoy_change_abs(grp) ==
  IF Len(grp) >= 2 THEN Some(grp[Len(grp)].sum - grp[Len(grp) - 1].sum) ELSE Absent

\* line 197 with the guard on the latest instead of the previous group
yoy_change_pct_guard_latest(grp) ==
  IF Len(grp) >= 2 /\ grp[Len(grp)].sum # 0
  THEN Some(Times(Minus(Div(grp[Len(grp)].sum, grp[Len(grp) - 1].sum), 1), 100))
  ELSE Absent

\* line 197
yoy_change_pct(grp) ==
  IF Len(grp) >= 2 /\ grp[Len(grp) - 1].sum # 0
  THEN Some(Times(Minus(Div(grp[Len(grp)].sum, grp[Len(grp) - 1].sum), 1), 100))
  ELSE Absent

\* lines 189-204 without top_lob
Kpis(d, c, col_amount) ==
  LET grp == IF Truthy(c.acct_year) THEN YearGroups(d, c.acct_year, col_amount) ELSE <<>>
  IN [total_amount |-> total_amount(d, col_amount),
      yoy_change_abs |-> yoy_change_abs(grp),
      yoy_change_pct |-> yoy_change_pct(grp),
      n_treaties |-> IF Truthy(c.treaty) THEN Some(nunique(Cells(d, c.treaty))) ELSE Absent,
      n_partners |-> IF Truthy(c.partner) THEN Some(nunique(Cells(d, c.partner))) ELSE Absent,
      top_lob |-> Absent]

\* lines 178-204
Derive ==
  /\ pc = "detected"
  /\ steps' = Append(steps, "derive")
  /\ LET col_amount == IF col.amount = None THEN H_AutoAmount ELSE col.amount
         d1 == WithAmount(df, col.amount)
     IN IF Truthy(col.date) /\ Dtype(d1, col.date) # "datetime64"
        THEN /\ df' = d1
             /\ col' = [col EXCEPT !.amount = col_amount]
             /\ Raise("french_month_name")
             /\ UNCHANGED kpi
        ELSE LET d2 == WithMonths(d1, col.date)
                 k == Kpis(d2, col, col_amount)
             IN /\ df' = d2
                /\ col' = [col EXCEPT !.amount = col_amount]
                /\ \E tb \in TieBreaks :
                     LET s == IF Truthy(col.lob)
                              THEN SortBySumDesc(GroupBySum(Cells(d2, col.lob),
                                                            Cells(d2, col_amount)), tb)
                              ELSE <<>>
                     IN kpi' = [k EXCEPT !.top_lob =
                                  IF Len(s) > 0 THEN Some(s[1].key) ELSE Absent]
                /\ pc' = "derived"
                /\ UNCHANGED <<raisedAt, exitCode>>
  /\ UNCHANGED <<run, path, csv, book, prevBook, series>>

----------------------------------------------------------------------------
(* The series written on the Dashboard, lines 240-276 *)

\* the group count above which the tail is collapsed
CollapseAbove == 25
\* the groups kept in front of "Others"
TopN == 10

Others == Str("Others")

\* lines 265-268 with the threshold of the head in place of the one of the test
Collapse_above_top(g) ==
  IF Len(g) > TopN
  THEN Append(SubSeq(g, 1, TopN),
              [key |-> Others,
               sum |-> SumSeq([i \in 1..(Len(g) - TopN) |-> g[TopN + i].sum])])
  ELSE g

\* lines 265-268: g is sorted descending by sum
Collapse(g) ==
  IF Len(g) > CollapseAbove
  THEN Append(SubSeq(g, 1, TopN),
              [key |-> Others,
               sum |-> SumSeq([i \in 1..(Len(g) - TopN) |-> g[TopN + i].sum])])
  ELSE g

\* lines 264-269
CategorySeries(d, col_treaty_type, col_amount, tb) ==
  Collapse(SortBySumDesc(GroupBySum(Cells(d, col_treaty_type), Cells(d, col_amount)), tb))

\* lines 242-244: rows without a date are dropped, the rest summed per month
PeriodSeries(d, col_date, col_amount) ==
  LET keys == [i \in 1..NRows(d) |->
                 IF Cells(d, col_date)[i].k = "ts" THEN Period(Cells(d, col_date)[i]) ELSE NaN]
  IN SortByKey(GroupBySum(keys, Cells(d, col_amount)))

\* lines 241-260
TimeSeries(d, c) ==
  IF Truthy(c.date) THEN PeriodSeries(d, c.date, c.amount)
  ELSE IF Truthy(c.acct_year) THEN YearGroups(d, c.acct_year, c.amount)
  ELSE <<>>

----------------------------------------------------------------------------
(* The workbook, lines 206-222 and write_table *)

\* most sheets Excel puts in a new workbook (Application.SheetsInNewWorkbook)
MaxNewSheets == 2

DefaultSheetNames == <<"Sheet1", "Sheet2", "Sheet3", "Sheet4">>

Sheet(name) == [name |-> name, tables |-> {}]

\* app.books.add()
NewBook(n) == [i \in 1..n |-> Sheet(DefaultSheetNames[i])]

HasSheet(wb, name) == \E i \in 1..Len(wb) : wb[i].name = name

\* wb.sheets[name].delete() that leaves the sheet in place
DeleteSheet_noop(wb, name) == wb

\* wb.sheets[name].delete()
DeleteSheet(wb, name) == SelectSeq(wb, LAMBDA sh : sh.name # name)

\* Excel refuses to delete the only sheet of a workbook
DeleteRaises(wb, name) == HasSheet(wb, name) /\ Len(wb) = 1

\* wb.sheets.add(name, before=wb.sheets[0])
AddFirst(wb, name) == <<Sheet(name)>> \o wb

\* wb.sheets.add(name, after=wb.sheets[-1])
AddLast(wb, name) == Append(wb, Sheet(name))

\* write_table: a ListObject of that name is deleted, then one is added
write_table(sh, tbl_name) ==
  [sh EXCEPT !.tables = (sh.tables \ {tbl_name}) \cup {tbl_name}]

\* lines 214-217
DataSheet(wb) ==
  LET w == AddFirst(IF HasSheet(wb, "Data") THEN DeleteSheet(wb, "Data") ELSE wb, "Data")
  IN [w EXCEPT ![1] = write_table(w[1], "DataTbl")]

\* lines 220-222
DashboardSheet(wb) ==
  AddLast(IF HasSheet(wb, "Dashboard") THEN DeleteSheet(wb, "Dashboard") ELSE wb, "Dashboard")

\* lines 206-298: n is the number of sheets of a new workbook
BuildWorkbook ==
  /\ pc = "derived"
  /\ steps' = Append(steps, "workbook")
  /\ \E n \in 1..MaxNewSheets, tb \in TieBreaks :
       LET wb == IF book = NoFile THEN NewBook(n) ELSE book
       IN IF DeleteRaises(wb, "Data")
          THEN /\ Raise("sheet.delete")
               /\ UNCHANGED <<book, series>>
          ELSE LET w1 == DataSheet(wb)
               IN IF DeleteRaises(w1, "Dashboard")
                  THEN /\ Raise("sheet.delete")
                       /\ UNCHANGED <<book, series>>
                  ELSE /\ series' =
                            [ts |-> TimeSeries(df, col),
                             cat |-> IF Truthy(col.treaty_type)
                                     THEN CategorySeries(df, col.treaty_type, col.amount, tb)
                                     ELSE <<>>]
                       /\ book' = DashboardSheet(w1)
                       /\ pc' = "done"
                       /\ exitCode' = 0
                       /\ UNCHANGED raisedAt
  /\ UNCHANGED <<run, path, csv, prevBook, df, col, kpi>>

Next ==
  PickCsv \/ CheckPath \/ LoadCsv \/ CoerceTypes \/ DetectColumns \/ Derive \/ BuildWorkbook

Spec == Init /\ [][Next]_vars

----------------------------------------------------------------------------
(* Running the script again on the same CSV *)

\* most invocations of the script
MaxRuns == 3

InitRerun == InitRun(Csvs(1))

\* the process has ended; the operator starts the script again
Rerun ==
  /\ pc \in {"done", "exited", "raised"}
  /\ run < MaxRuns
  /\ run' = run + 1
  /\ pc' = "start"
  /\ prevBook' = book
  /\ path' = "" /\ df' = NoFrame /\ col' = NoCols /\ kpi' = NoKpi /\ series' = <<>>
  /\ steps' = <<>> /\ raisedAt' = "" /\ exitCode' = -1
  /\ UNCHANGED <<csv, book>>

NextRerun == Next \/ Rerun

SpecRerun == InitRerun /\ [][NextRerun]_vars

----------------------------------------------------------------------------
(* The category series on its own: many treaty types *)

\* most distinct treaty types of the category check
MaxTypes == 27

AmountSteps == {1, 3, 7}

\* rows (type i, amount) for i in 1..nt, then dup more rows for the first types
CategoryFrame(nt, step, dup) ==
  LET n == nt + (IF dup <= nt THEN dup ELSE nt)
  IN [columns |-> <<H_TreatyType, H_Amount>>,
      dtype |-> <<"numeric", "numeric">>,
      data |-> << [r \in 1..n |-> Num(IF r <= nt THEN r ELSE r - nt)],
                  [r \in 1..n |-> Num(((r * step) % 11) - 2)] >>]

InitCategory ==
  /\ pc = "category"
  /\ df \in { CategoryFrame(nt, step, dup) :
                nt \in 0..MaxTypes, step \in AmountSteps, dup \in {0, 2} }
  /\ col = [NoCols EXCEPT !.treaty_type = H_TreatyType, !.amount = H_Amount]
  /\ run = 0 /\ path = "" /\ csv = NoFrame /\ book = NoFile /\ prevBook = NoFile
  /\ kpi = NoKpi /\ series = <<>> /\ steps = <<>> /\ raisedAt = "" /\ exitCode = -1

\* lines 263-269
BuildCategorySeries ==
  /\ pc = "category"
  /\ \E tb \in TieBreaks :
       series' = [ts |-> <<>>, cat |-> CategorySeries(df, col.treaty_type, col.amount, tb)]
  /\ pc' = "categorised"
  /\ UNCHANGED <<run, path, csv, book, prevBook, df, col, kpi, steps, raisedAt, exitCode>>

NextCategory == BuildCategorySeries

SpecCategory == InitCategory /\ [][NextCategory]_vars

----------------------------------------------------------------------------
(* Properties of column resolution (SpecResolve) *)

\* header i of the list matches key j of field f
HeaderMatches(f, i, j) == Match(Lower(df.columns[i]), Lower(SYN[f][j]))

\* the keys of field f that some header matches
KeysHit(f) ==
  { j \in 1..Len(SYN[f]) : \E i \in 1..Len(df.columns) : HeaderMatches(f, i, j) }

MinOf(S) == CHOOSE x \in S : \A y \in S : x <= y

\* C1: find_col returns None exactly when no header matches any synonym;
\* otherwise it returns a header of the list that matches the earliest synonym
\* that any header matches. Headers ["Policy", "Treaty Number"] resolve the
\* treaty field to "Treaty Number".
C1_FirstSynonymWins ==
  pc = "resolved" =>
    /\ \A f \in Fields :
         /\ (col[f] = None) <=> (KeysHit(f) = {})
         /\ KeysHit(f) # {} =>
              \E i \in 1..Len(df.columns) :
                 /\ df.columns[i] = col[f]
                 /\ HeaderMatches(f, i, MinOf(KeysHit(f)))
    /\ df.columns = <<H_Policy, H_TreatyNumber>> => col.treaty = H_TreatyNumber

\* C1 witness: the spec's example has been resolved
C1_Witness ==
  /\ pc = "resolved"
  /\ df.columns = <<H_Policy, H_TreatyNumber>>
  /\ col.treaty = H_TreatyNumber
  /\ col.amount = None

\* C2: within the pass of the winning synonym, a header equal to the phrase is
\* returned in preference to a header that only contains the phrase.
C2_ExactBeforeSubstring ==
  pc = "resolved" =>
    \A f \in Fields :
      KeysHit(f) # {} =>
        LET k == Lower(SYN[f][MinOf(KeysHit(f))])
        IN (\E i \in 1..Len(df.columns) : Lower(df.columns[i]) = k) => Lower(col[f]) = k

\* the canonical fields main() resolves (gl is in SYN but never looked up)
MainFields == Fields \ {"gl"}

\* C10: the columns resolved for different canonical fields are pairwise
\* distinct.
C10_ResolvedColumnsDistinct ==
  pc = "resolved" =>
    \A f, g \in MainFields : (f # g /\ col[f] # None) => col[f] # col[g]

----------------------------------------------------------------------------
(* Properties of the pipeline (Spec, SpecRerun) *)

Ran(step) == \E i \in 1..Len(steps) : steps[i] = step

\* C3: type coercion never raises: whatever the cells of the matched columns
\* hold, coerce_types returns and the run continues.
C3_CoercionNeverRaises == raisedAt # "coerce_types"

\* C4: once the CSV is loaded no derivation step aborts the run.
C4_NoDerivationAborts == raisedAt \notin {"ensure_year", "french_month_name"}

\* the headers of the loaded CSV
OriginalHeaders == normalize_columns(csv.columns)
OriginalHas(h) == \E i \in 1..Len(OriginalHeaders) : OriginalHeaders[i] = h
Resolves(f) == find_col(EmptyFrame(OriginalHeaders), SYN[f]) # None

\* C9: once ensure_year has acted, the column "Accounting Year (auto)" has
\* been synthesized exactly when no accounting-year column resolves and a date
\* column does; then its label is no original header and the original columns
\* are those coerce_types returned; when an accounting-year column resolves no
\* column is added and that column is the result.
C9_DerivedYear ==
  (pc = "detected" \/ raisedAt = "ensure_year") =>
    LET synthesized == HasCol(df, AutoYear) /\ ~OriginalHas(AutoYear)
        coerced == coerce_types([columns |-> OriginalHeaders,
                                 dtype |-> [i \in 1..Len(csv.columns) |-> RawDtype(csv.data[i])],
                                 data |-> csv.data]).df
    IN /\ synthesized <=> (~Resolves("acct_year") /\ Resolves("date"))
       /\ synthesized =>
            /\ Len(df.columns) = Len(OriginalHeaders) + 1
            /\ \A i \in 1..Len(OriginalHeaders) :
                 df.columns[i] = OriginalHeaders[i] /\ df.data[i] = coerced.data[i]
            /\ col.acct_year = AutoYear
       /\ Resolves("acct_year") =>
            /\ df = coerced
            /\ col.acct_year = find_col(coerced, SYN.acct_year)

\* the amounts of the rows whose year cell is the number y
YearSum(y) ==
  SumSeq([r \in 1..NRows(df) |->
            IF Cells(df, col.acct_year)[r] = y
            THEN AmountOf(Cells(df, col.amount)[r]) ELSE 0])

\* the years that occur in the year column
YearsPresent ==
  IF Truthy(col.acct_year)
  THEN { Cells(df, col.acct_year)[r] : r \in { q \in 1..NRows(df) : ~IsNull(Cells(df, col.acct_year)[q]) } }
  ELSE {}

LatestOf(Y) == CHOOSE y \in Y : \A z \in Y : z.v <= y.v

\* C5: with at least two year-groups the absolute delta is the latest year's
\* sum minus the sum of the year before it, and the percent delta is
\* (latest/previous - 1) x 100 when the previous sum is non-zero and absent when
\* it is zero; with fewer than two year-groups or no year column both are
\* absent. Rows (2023,100), (2024,150), (2024,50) give 100 and 100.0.
C5_YearOverYear ==
  pc \in {"derived", "done"} =>
    /\ IF Cardinality(YearsPresent) >= 2
       THEN LET last == LatestOf(YearsPresent)
                prev == LatestOf(YearsPresent \ {last})
            IN /\ kpi.yoy_change_abs = Some(YearSum(last) - YearSum(prev))
               /\ IF YearSum(prev) = 0
                  THEN kpi.yoy_change_pct = Absent
                  ELSE /\ kpi.yoy_change_pct # Absent
                       /\ kpi.yoy_change_pct[1].d # 0
                       /\ kpi.yoy_change_pct[1].n * YearSum(prev)
                            = (YearSum(last) - YearSum(prev)) * 100 * kpi.yoy_change_pct[1].d
       ELSE kpi.yoy_change_abs = Absent /\ kpi.yoy_change_pct = Absent
    /\ ( /\ Truthy(col.acct_year)
         /\ Cells(df, col.acct_year) = <<Num(2023), Num(2024), Num(2024)>>
         /\ Cells(df, col.amount) = <<Num(100), Num(150), Num(50)>> )
       => /\ kpi.yoy_change_abs = Some(Num(100).v)
          /\ kpi.yoy_change_pct # Absent
          /\ kpi.yoy_change_pct[1].n = 100 * kpi.yoy_change_pct[1].d

\* C5 witness: the spec's example, with the year derived from the dates
C5_Witness ==
  /\ pc = "derived"
  /\ col.acct_year = AutoYear
  /\ Cells(df, col.amount) = <<Num(100), Num(150), Num(50)>>
  /\ kpi.yoy_change_abs = Some(Num(100).v)
  /\ kpi.yoy_change_pct # Absent

\* the path names no file that can be loaded
PathIsBad == path = "" \/ path # CsvPath

\* C7: with an empty path or a path that names no file the process exits with
\* a non-zero status before the CSV is loaded, before any column is resolved or
\* coerced and before a workbook is created or written; a run that resolves
\* columns has passed the path check.
C7_PathCheckedFirst ==
  /\ (pc \notin {"start", "picked"} /\ PathIsBad) =>
        /\ pc = "exited"
        /\ exitCode # 0 /\ exitCode # -1
        /\ steps = <<"pick_csv", "print_invalid_path", "exit">>
        /\ df = NoFrame /\ col = NoCols /\ book = prevBook
  /\ (Ran("read_csv") \/ Ran("coerce_types") \/ Ran("find_col") \/ Ran("workbook")) =>
        ~PathIsBad /\ ~Ran("exit")

\* C7 witness: a path that names no file has been rejected
C7_Witness == pc = "exited" /\ path = "missing.csv" /\ exitCode = 1

SheetNames(wb) == [i \in 1..Len(wb) |-> wb[i].name]
CountSheets(wb, name) == Cardinality({ i \in 1..Len(wb) : wb[i].name = name })

----------------------------------------------------------------------------
(* Properties of the category series (SpecCategory) *)

TypeCells == Cells(df, H_TreatyType)
TypesPresent == { TypeCells[r] : r \in 1..NRows(df) }

\* the amounts of the rows whose treaty type is in T
SumOfTypes(T) ==
  SumSeq([r \in 1..NRows(df) |-> IF TypeCells[r] \in T THEN Cells(df, H_Amount)[r].v ELSE 0])

\* C6: amounts are summed per treaty type and ordered descending; with more
\* than twenty-five types the series is the ten largest groups followed by one
\* "Others" row holding the sum of all other groups (11 rows); with twenty-five
\* or fewer every group is its own row and there is no "Others" row; the values
\* always add up to the sum over all groups.
C6_CategoryCollapse ==
  pc = "categorised" =>
    LET g == series.cat
        n == Cardinality(TypesPresent)
        kept == IF n > 25 THEN 10 ELSE n
        topKeys == { g[i].key : i \in 1..kept }
    IN /\ Len(g) = IF n > 25 THEN 11 ELSE n
       /\ \A i \in 1..kept : g[i].key \in TypesPresent /\ g[i].sum = SumOfTypes({g[i].key})
       /\ \A i, j \in 1..kept : i < j => g[i].sum >= g[j].sum /\ g[i].key # g[j].key
       /\ n > 25 =>
            /\ g[11].key = Others
            /\ \A t \in TypesPresent \ topKeys : SumOfTypes({t}) <= g[10].sum
            /\ g[11].sum = SumOfTypes(TypesPresent \ topKeys)
       /\ n <= 25 => \A i \in 1..Len(g) : g[i].key # Others
       /\ SumSeq([i \in 1..Len(g) |-> g[i].sum]) = SumOfTypes(TypesPresent)

\* C6 witness: more than twenty-five types have been collapsed to 11 rows
C6_Witness ==
  /\ pc = "categorised"
  /\ Cardinality(TypesPresent) > 25
  /\ Len(series.cat) = 11
  /\ series.cat[11].key = Others

====
